---- MODULE Spec2Model ----
(***************************************************************************)
(* Model of the IndexConfig derive macro                                   *)
(* (meilisearch-index-setting-macro/src/lib.rs) and of the generate_index  *)
(* procedure it emits.                                                     *)
(*                                                                         *)
(* A string is a sequence of characters, a character a one-element token   *)
(* ("u", "P", "1", ...; "e_acute" stands for a non-ASCII letter).  An      *)
(* Option is the record None or Some(v).                                   *)
(***************************************************************************)
EXTENDS Integers, Sequences, FiniteSets, TLC

VARIABLES
    item,                   \* the DeriveInput: kind, ident, attrs, fields
    pc,                     \* position of the macro in its pipeline
    ai,                     \* next type-level attribute the for loop looks at
    index_name_override,    \* Option<(String, Span)>
    max_total_hits,         \* Option<Expr>
    index_name,             \* resolved name
    span,                   \* where a naming error would be reported
    fi,                     \* next field the for loop looks at
    primary_key_found,
    distinct_found,
    primary_key_attribute,
    distinct_key_attribute,
    displayed_attributes,
    searchable_attributes,
    filterable_attributes,
    sortable_attributes,
    output,                 \* what the macro hands back to the compiler
    rpc,                    \* position of a run of the generated generate_index
    calls,                  \* the client calls that run has made, in order
    pending,                \* what the client last returned, not yet unwrapped
    result                  \* what generate_index returned to its caller

vars == << item, pc, ai, index_name_override, max_total_hits, index_name, span,
           fi, primary_key_found, distinct_found, primary_key_attribute,
           distinct_key_attribute, displayed_attributes, searchable_attributes,
           filterable_attributes, sortable_attributes, output,
           rpc, calls, pending, result >>

macroVars == << item, pc, ai, index_name_override, max_total_hits, index_name,
                span, fi, primary_key_found, distinct_found,
                primary_key_attribute, distinct_key_attribute,
                displayed_attributes, searchable_attributes,
                filterable_attributes, sortable_attributes, output >>

runVars == << rpc, calls, pending, result >>

(***************************************************************************)
(* Bounds of the model.                                                    *)
(***************************************************************************)
MaxIdentLen == 3        \* characters of a generated type identifier
MaxNameLen == 2         \* characters of a generated index_name literal
MaxStructAttrs == 3     \* attribute blocks on the type
MaxFields == 3          \* fields of the struct
MaxFieldAttrs == 3      \* attribute blocks on one field

(***************************************************************************)
(* Options and strings.                                                    *)
(***************************************************************************)
None == [some |-> FALSE]
Some(v) == [some |-> TRUE, v |-> v]

EmptyString == << >>

UpperLetters ==
    << "A", "B", "C", "D", "E", "F", "G", "H", "I", "J", "K", "L", "M",
       "N", "O", "P", "Q", "R", "S", "T", "U", "V", "W", "X", "Y", "Z" >>

LowerLetters ==
    << "a", "b", "c", "d", "e", "f", "g", "h", "i", "j", "k", "l", "m",
       "n", "o", "p", "q", "r", "s", "t", "u", "v", "w", "x", "y", "z" >>

Digits == { "0", "1", "2", "3", "4", "5", "6", "7", "8", "9" }

Range(s) == { s[i] : i \in DOMAIN s }

IsUpper(c) == c \in Range(UpperLetters)
IsLower(c) == c \in Range(LowerLetters) \/ c = "e_acute"
IsDigit(c) == c \in Digits

ToLowerChar(c) ==
    IF IsUpper(c)
    THEN LowerLetters[CHOOSE i \in DOMAIN UpperLetters : UpperLetters[i] = c]
    ELSE c

\* is_valid_name: every character in a-z, A-Z, 0-9, '-', '_', and not empty.
ValidChar(c) ==
    \/ c \in Range(LowerLetters)
    \/ c \in Range(UpperLetters)
    \/ c \in Digits
    \/ c = "-"
    \/ c = "_"

\* Mutant: the emptiness test is forgotten.
is_valid_name_without_empty_check(name) ==
    \A i \in DOMAIN name : ValidChar(name[i])

is_valid_name(name) ==
    /\ \A i \in DOMAIN name : ValidChar(name[i])
    /\ name # EmptyString

(***************************************************************************)
(* to_case(Case::Snake): split at the delimiters '_', '-', ' ' (dropped)   *)
(* and before a character at a lower-upper, upper-digit, digit-upper,      *)
(* digit-lower, lower-digit or acronym (upper upper lower) boundary; drop  *)
(* the empty words, lowercase, join with '_'.                              *)
(***************************************************************************)
IsDelimiter(c) == c \in { "_", "-", " " }

SplitBefore(s, i) ==
    /\ i > 1
    /\ \/ IsLower(s[i - 1]) /\ IsUpper(s[i])
       \/ IsUpper(s[i - 1]) /\ IsDigit(s[i])
       \/ IsDigit(s[i - 1]) /\ IsUpper(s[i])
       \/ IsDigit(s[i - 1]) /\ IsLower(s[i])
       \/ IsLower(s[i - 1]) /\ IsDigit(s[i])
       \/ /\ i < Len(s)
          /\ IsUpper(s[i - 1]) /\ IsUpper(s[i]) /\ IsLower(s[i + 1])

\* The words of s from character i on, given the word being built.
RECURSIVE SplitWords(_, _, _)
SplitWords(s, i, word) ==
    IF i > Len(s) THEN << word >>
    ELSE IF IsDelimiter(s[i]) THEN << word >> \o SplitWords(s, i + 1, << >>)
    ELSE IF SplitBefore(s, i) THEN << word >> \o SplitWords(s, i + 1, << s[i] >>)
    ELSE SplitWords(s, i + 1, Append(word, s[i]))

NonEmptyWords(ws) == SelectSeq(ws, LAMBDA w : w # << >>)

LowerWord(w) == [i \in DOMAIN w |-> ToLowerChar(w[i])]

RECURSIVE JoinWords(_)
JoinWords(ws) ==
    IF ws = << >> THEN << >>
    ELSE IF Len(ws) = 1 THEN LowerWord(ws[1])
    ELSE LowerWord(ws[1]) \o << "_" >> \o JoinWords(Tail(ws))

ToSnakeCase(s) == JoinWords(NonEmptyWords(SplitWords(s, 1, << >>)))

(***************************************************************************)
(* Attributes.  A block is [tag, ok, body]: the path of the attribute,     *)
(* whether parse_args accepts its arguments, and what they parse to.       *)
(***************************************************************************)
Roles == { "primary_key", "displayed", "searchable", "distinct", "filterable", "sortable" }

\* FieldAttrs with exactly the flags of S set.
FieldAttrs(S) ==
    [ primary_key |-> "primary_key" \in S,
      displayed   |-> "displayed" \in S,
      searchable  |-> "searchable" \in S,
      distinct    |-> "distinct" \in S,
      filterable  |-> "filterable" \in S,
      sortable    |-> "sortable" \in S ]

FieldAttrsDefault == FieldAttrs({})

StructAttrs(name, hits) == [ index_name |-> name, max_total_hits |-> hits ]

\* filter_attrs keeps the blocks whose path is index_config.
filter_attrs(attrs) == SelectSeq(attrs, LAMBDA a : a.tag = "index_config")

\* Mutant: the last block that parses gives the flags, not the first.
RECURSIVE FindLastFieldAttrs(_)
FindLastFieldAttrs(blocks) ==
    IF blocks = << >> THEN FieldAttrsDefault
    ELSE IF blocks[Len(blocks)].ok THEN blocks[Len(blocks)].body
    ELSE FindLastFieldAttrs(SubSeq(blocks, 1, Len(blocks) - 1))

\* find_map(|attr| attr.parse_args::<FieldAttrs>().ok()).unwrap_or_default()
RECURSIVE FindMapFieldAttrs(_)
FindMapFieldAttrs(blocks) ==
    IF blocks = << >> THEN FieldAttrsDefault
    ELSE IF Head(blocks).ok THEN Head(blocks).body
    ELSE FindMapFieldAttrs(Tail(blocks))

ParsedFieldAttrs(field) == FindMapFieldAttrs(filter_attrs(field.attrs))

(***************************************************************************)
(* Spans and diagnostics.                                                  *)
(***************************************************************************)
IdentSpan == [ at |-> "ident", n |-> 0 ]
NameSpan(i) == [ at |-> "index_name", n |-> i ]    \* the key in type block i
FieldSpan(i) == [ at |-> "field", n |-> i ]
NoSpan == [ at |-> "none", n |-> 0 ]

NoOutput == [ kind |-> "none" ]
Panic == [ kind |-> "panic" ]
CompileError(sp, msg) == [ kind |-> "error", span |-> sp, message |-> msg ]

StructuralMessage == "Applicable only to struct"
InvalidNameMessage == "Index must follow the naming guidelines."
DuplicatePrimaryKeyMessage == "Only one field can be marked as primary key"
DuplicateDistinctMessage == "Only one field can be marked as distinct"

(***************************************************************************)
(* Code emission (lines 146-246).  A token stream of chained calls is a    *)
(* sequence of [method, kind, items].                                      *)
(***************************************************************************)
Call(method, kind, items) == [ method |-> method, kind |-> kind, items |-> items ]

get_pagination_token(max_hits, method_name) ==
    IF max_hits.some
    THEN << Call(method_name, "PaginationSetting", << max_hits.v >>) >>
    ELSE << >>

\* Mutant: no call at all for an empty list.
get_settings_token_for_list_skipping_empty(field_name_list, method_name) ==
    IF field_name_list = << >>
    THEN << >>
    ELSE << Call(method_name, "array", field_name_list) >>

get_settings_token_for_list(field_name_list, method_name) ==
    IF field_name_list = << >>
    THEN << Call(method_name, "iter_empty", << >>) >>
    ELSE << Call(method_name, "array", field_name_list) >>

get_settings_token_for_string_for_some_string(field_name, method_name) ==
    IF field_name = EmptyString
    THEN << >>
    ELSE << Call(method_name, "Some", << field_name >>) >>

primary_key_token(pk) == IF pk = EmptyString THEN None ELSE Some(pk)

generate_settings(displayed, sortable, filterable, searchable, distinct, hits) ==
    get_settings_token_for_list(displayed, "with_displayed_attributes")
    \o get_settings_token_for_list(sortable, "with_sortable_attributes")
    \o get_settings_token_for_list(filterable, "with_filterable_attributes")
    \o get_settings_token_for_list(searchable, "with_searchable_attributes")
    \o get_settings_token_for_string_for_some_string(distinct, "with_distinct_attribute")
    \o get_pagination_token(hits, "with_pagination")

Implementation(name, pk, settings) ==
    [ kind |-> "impl",
      INDEX_STR |-> name,
      generate_settings |-> settings,
      create_index_args |-> [ uid |-> name, primary_key |-> primary_key_token(pk) ] ]

(***************************************************************************)
(* One iteration of `for field in fields` (lines 101-143), as the values   *)
(* the locals have when the iteration ends and what it returns, if it      *)
(* returns.  field.ident.clone().unwrap() panics on a positional field.    *)
(***************************************************************************)
Locals ==
    [ primary_key_found |-> primary_key_found,
      distinct_found |-> distinct_found,
      primary_key_attribute |-> primary_key_attribute,
      distinct_key_attribute |-> distinct_key_attribute,
      displayed_attributes |-> displayed_attributes,
      searchable_attributes |-> searchable_attributes,
      filterable_attributes |-> filterable_attributes,
      sortable_attributes |-> sortable_attributes,
      ret |-> NoOutput ]

Returned(l) == l.ret.kind # "none"

\* Mutant: no uniqueness check, a later primary key replaces the earlier.
CheckPrimaryKeyUnchecked(l, field, idx, attrs) ==
    IF ~attrs.primary_key THEN l
    ELSE IF ~field.ident.some THEN [l EXCEPT !.ret = Panic]
    ELSE [l EXCEPT !.primary_key_attribute = field.ident.v,
                   !.primary_key_found = TRUE]

\* lines 107-117
CheckPrimaryKey(l, field, idx, attrs) ==
    IF ~attrs.primary_key THEN l
    ELSE IF l.primary_key_found
    THEN [l EXCEPT !.ret = CompileError(FieldSpan(idx), DuplicatePrimaryKeyMessage)]
    ELSE IF ~field.ident.some THEN [l EXCEPT !.ret = Panic]
    ELSE [l EXCEPT !.primary_key_attribute = field.ident.v,
                   !.primary_key_found = TRUE]

\* lines 120-127
CheckDistinct(l, field, idx, attrs) ==
    IF Returned(l) \/ ~attrs.distinct THEN l
    ELSE IF l.distinct_found
    THEN [l EXCEPT !.ret = CompileError(FieldSpan(idx), DuplicateDistinctMessage)]
    ELSE IF ~field.ident.some THEN [l EXCEPT !.ret = Panic]
    ELSE [l EXCEPT !.distinct_key_attribute = field.ident.v,
                   !.distinct_found = TRUE]

\* Mutant: the name is inserted at the front of the list.
PushFrontIf(l, field, flag, list) ==
    IF l.ret.kind # "none" \/ ~flag THEN l
    ELSE IF ~field.ident.some THEN [l EXCEPT !.ret = Panic]
    ELSE [l EXCEPT ![list] = << field.ident.v >> \o @]

\* lines 129-131, 133-135, 137-139, 141-143: one `if flag { list.push(name) }`
PushIf(l, field, flag, list) ==
    IF Returned(l) \/ ~flag THEN l
    ELSE IF ~field.ident.some THEN [l EXCEPT !.ret = Panic]
    ELSE [l EXCEPT ![list] = Append(@, field.ident.v)]

FieldIteration(l, field, idx) ==
    LET attrs == ParsedFieldAttrs(field)
        l1 == CheckPrimaryKey(l, field, idx, attrs)
        l2 == CheckDistinct(l1, field, idx, attrs)
        l3 == PushIf(l2, field, attrs.displayed, "displayed_attributes")
        l4 == PushIf(l3, field, attrs.searchable, "searchable_attributes")
        l5 == PushIf(l4, field, attrs.filterable, "filterable_attributes")
    IN  PushIf(l5, field, attrs.sortable, "sortable_attributes")

(***************************************************************************)
(* The macro, step by step.                                                *)
(***************************************************************************)
\* lines 30-46: only a struct (named, tuple or unit) has fields to hand on.
IsStruct(kind) == kind \in { "named", "tuple", "unit" }

generate_index_settings ==
    /\ pc = "start"
    /\ IF IsStruct(item.kind)
       THEN pc' = "struct_attrs" /\ output' = output
       ELSE /\ pc' = "done"
            /\ output' = CompileError(IdentSpan, StructuralMessage)
    /\ UNCHANGED << item, ai, index_name_override, max_total_hits, index_name,
                    span, fi, primary_key_found, distinct_found,
                    primary_key_attribute, distinct_key_attribute,
                    displayed_attributes, searchable_attributes,
                    filterable_attributes, sortable_attributes >>
    /\ UNCHANGED runVars

\* Mutant: a parsed block replaces both keys, also the ones it omits.
StructAttrLoopReplacingBoth ==
    /\ pc = "struct_attrs"
    /\ ai <= Len(item.attrs)
    /\ LET attr == item.attrs[ai]
           taken == attr.tag = "index_config" /\ attr.ok
       IN  /\ index_name_override' =
                 IF ~taken THEN index_name_override
                 ELSE IF attr.body.index_name.some
                 THEN Some([ value |-> attr.body.index_name.v, name_span |-> NameSpan(ai) ])
                 ELSE None
           /\ max_total_hits' =
                 IF taken THEN attr.body.max_total_hits ELSE max_total_hits
    /\ ai' = ai + 1
    /\ UNCHANGED << item, pc, index_name, span, fi, primary_key_found,
                    distinct_found, primary_key_attribute, distinct_key_attribute,
                    displayed_attributes, searchable_attributes,
                    filterable_attributes, sortable_attributes, output >>
    /\ UNCHANGED runVars

\* lines 74-84: the loop over the type's blocks; a block of another path or
\* one parse_args rejects never reaches the loop body.
StructAttrLoop ==
    /\ pc = "struct_attrs"
    /\ ai <= Len(item.attrs)
    /\ LET attr == item.attrs[ai]
           taken == attr.tag = "index_config" /\ attr.ok
       IN  /\ index_name_override' =
                 IF taken /\ attr.body.index_name.some
                 THEN Some([ value |-> attr.body.index_name.v, name_span |-> NameSpan(ai) ])
                 ELSE index_name_override
           /\ max_total_hits' =
                 IF taken /\ attr.body.max_total_hits.some
                 THEN Some(attr.body.max_total_hits.v)
                 ELSE max_total_hits
    /\ ai' = ai + 1
    /\ UNCHANGED << item, pc, index_name, span, fi, primary_key_found,
                    distinct_found, primary_key_attribute, distinct_key_attribute,
                    displayed_attributes, searchable_attributes,
                    filterable_attributes, sortable_attributes, output >>
    /\ UNCHANGED runVars

\* lines 86-91
ResolvedName ==
    IF index_name_override.some
    THEN << index_name_override.v.value, index_name_override.v.name_span >>
    ELSE << ToSnakeCase(item.ident), IdentSpan >>

\* lines 86-99
ResolveIndexName ==
    /\ pc = "struct_attrs"
    /\ ai > Len(item.attrs)
    /\ index_name' = ResolvedName[1]
    /\ span' = ResolvedName[2]
    /\ IF ~is_valid_name(ResolvedName[1])
       THEN /\ pc' = "done"
            /\ output' = CompileError(ResolvedName[2], InvalidNameMessage)
       ELSE pc' = "fields" /\ output' = output
    /\ UNCHANGED << item, ai, index_name_override, max_total_hits, fi,
                    primary_key_found, distinct_found, primary_key_attribute,
                    distinct_key_attribute, displayed_attributes,
                    searchable_attributes, filterable_attributes,
                    sortable_attributes >>
    /\ UNCHANGED runVars

\* lines 101-144
FieldLoop ==
    /\ pc = "fields"
    /\ fi <= Len(item.fields)
    /\ LET l == FieldIteration(Locals, item.fields[fi], fi)
       IN  /\ primary_key_found' = l.primary_key_found
           /\ distinct_found' = l.distinct_found
           /\ primary_key_attribute' = l.primary_key_attribute
           /\ distinct_key_attribute' = l.distinct_key_attribute
           /\ displayed_attributes' = l.displayed_attributes
           /\ searchable_attributes' = l.searchable_attributes
           /\ filterable_attributes' = l.filterable_attributes
           /\ sortable_attributes' = l.sortable_attributes
           /\ IF Returned(l)
              THEN pc' = "done" /\ output' = l.ret /\ fi' = fi
              ELSE pc' = pc /\ output' = output /\ fi' = fi + 1
    /\ UNCHANGED << item, ai, index_name_override, max_total_hits, index_name, span >>
    /\ UNCHANGED runVars

\* lines 146-194
EmitImplementation ==
    /\ pc = "fields"
    /\ fi > Len(item.fields)
    /\ pc' = "done"
    /\ output' = Implementation(index_name, primary_key_attribute,
                    generate_settings(displayed_attributes, sortable_attributes,
                                      filterable_attributes, searchable_attributes,
                                      distinct_key_attribute, max_total_hits))
    /\ UNCHANGED << item, ai, index_name_override, max_total_hits, index_name,
                    span, fi, primary_key_found, distinct_found,
                    primary_key_attribute, distinct_key_attribute,
                    displayed_attributes, searchable_attributes,
                    filterable_attributes, sortable_attributes >>
    /\ UNCHANGED runVars

(***************************************************************************)
(* A run of the emitted generate_index (lines 186-192):                    *)
(*   client.create_index(name, pk).await.unwrap()                          *)
(*         .wait_for_completion(client, None, None).await.unwrap()         *)
(*         .try_make_index(client)                                         *)
(* The client is the SDK: create_index answers with an enqueued task or an *)
(* error, wait_for_completion with the task once it has succeeded or       *)
(* failed or with an error (timeout, transport), try_make_index with an    *)
(* index for a succeeded task and with the task itself otherwise.          *)
(***************************************************************************)
Ok(v) == [ ok |-> TRUE, v |-> v ]
Err(e) == [ ok |-> FALSE, v |-> e ]
NoResult == [ ok |-> FALSE, v |-> "none" ]

TerminalStatuses == { "succeeded", "failed" }

CreateIndexResults == { Ok("enqueued"), Err("CommunicationError"), Err("index_already_exists") }

WaitForCompletionResults == { Ok("succeeded"), Ok("failed"), Err("Timeout"), Err("CommunicationError") }

try_make_index(task) ==
    IF task = "succeeded" THEN Ok("Index") ELSE Err(task)

ClientCall(op, args) == [ op |-> op, args |-> args ]

\* line 187: client.create_index(#index_name, #primary_key_token)
CallCreateIndex ==
    /\ output.kind = "impl"
    /\ rpc = "idle"
    /\ calls' = Append(calls, ClientCall("create_index", output.create_index_args))
    /\ rpc' = "create_index"
    /\ UNCHANGED << pending, result >>
    /\ UNCHANGED macroVars

\* line 188, .await: the client answers
CreateIndexReturns ==
    /\ rpc = "create_index"
    /\ \E r \in CreateIndexResults : pending' = r
    /\ rpc' = "create_index_returned"
    /\ UNCHANGED << calls, result >>
    /\ UNCHANGED macroVars

\* Mutant: the task create_index returned is converted without the wait.
UnwrapAndConvertWithoutWaiting ==
    /\ rpc = "create_index_returned"
    /\ IF pending.ok
       THEN /\ calls' = Append(calls, ClientCall("try_make_index", pending.v))
            /\ result' = try_make_index(pending.v)
            /\ rpc' = "returned"
       ELSE /\ calls' = calls
            /\ result' = result
            /\ rpc' = "panicked"
    /\ UNCHANGED pending
    /\ UNCHANGED macroVars

\* lines 188-189: .unwrap().wait_for_completion(client, None, None)
UnwrapAndWaitForCompletion ==
    /\ rpc = "create_index_returned"
    /\ IF pending.ok
       THEN /\ calls' = Append(calls, ClientCall("wait_for_completion", pending.v))
            /\ rpc' = "wait_for_completion"
       ELSE /\ calls' = calls
            /\ rpc' = "panicked"
    /\ UNCHANGED << pending, result >>
    /\ UNCHANGED macroVars

\* line 190, .await: the client answers
WaitForCompletionReturns ==
    /\ rpc = "wait_for_completion"
    /\ \E r \in WaitForCompletionResults : pending' = r
    /\ rpc' = "wait_for_completion_returned"
    /\ UNCHANGED << calls, result >>
    /\ UNCHANGED macroVars

\* Mutant: the wait's error is handed to the caller instead of unwrapped.
TryMakeIndexOrReturnError ==
    /\ rpc = "wait_for_completion_returned"
    /\ calls' = IF pending.ok
                THEN Append(calls, ClientCall("try_make_index", pending.v))
                ELSE calls
    /\ result' = IF pending.ok THEN try_make_index(pending.v) ELSE Err(pending.v)
    /\ rpc' = "returned"
    /\ UNCHANGED pending
    /\ UNCHANGED macroVars

\* lines 190-191: .unwrap().try_make_index(client), the value of the function
UnwrapAndTryMakeIndex ==
    /\ rpc = "wait_for_completion_returned"
    /\ IF pending.ok
       THEN /\ calls' = Append(calls, ClientCall("try_make_index", pending.v))
            /\ result' = try_make_index(pending.v)
            /\ rpc' = "returned"
       ELSE /\ calls' = calls
            /\ result' = result
            /\ rpc' = "panicked"
    /\ UNCHANGED pending
    /\ UNCHANGED macroVars

(***************************************************************************)
(* The inputs: what a DeriveInput can be, within the bounds.               *)
(***************************************************************************)
RECURSIVE SeqsUpTo(_, _)
SeqsUpTo(S, n) ==
    IF n = 0 THEN { << >> }
    ELSE LET shorter == SeqsUpTo(S, n - 1)
         IN  shorter \cup { Append(q, x) : q \in { t \in shorter : Len(t) = n - 1 }, x \in S }

Item(kind, ident, attrs, fields) ==
    [ kind |-> kind, ident |-> ident, attrs |-> attrs, fields |-> fields ]

Field(ident, attrs) == [ ident |-> ident, attrs |-> attrs ]

Block(tag, ok, body) == [ tag |-> tag, ok |-> ok, body |-> body ]

\* #[index_config(<flags>)] on a field
Flagged(S) == Block("index_config", TRUE, FieldAttrs(S))

\* the name of the i-th field of a generated struct
DigitSeq == << "0", "1", "2", "3", "4", "5", "6", "7", "8", "9" >>
FieldName(i) == << "f", DigitSeq[i + 1] >>

NamedFields(flagsets) ==
    [ i \in DOMAIN flagsets |-> Field(Some(FieldName(i)), << Flagged(flagsets[i]) >>) ]

PositionalFields(flagsets) ==
    [ i \in DOMAIN flagsets |-> Field(None, << Flagged(flagsets[i]) >>) ]

\* type identifiers: letters, digits, '_', a non-ASCII letter; no leading
\* digit, and not the lone underscore
IdentChars == { "u", "P", "R", "1", "_", "e_acute" }

Idents ==
    { s \in SeqsUpTo(IdentChars, MaxIdentLen) :
        /\ s # << >>
        /\ ~IsDigit(s[1])
        /\ s # << "_" >> }

UserProfile == << "U", "s", "e", "r", "P", "r", "o", "f", "i", "l", "e" >>
user_profile == << "u", "s", "e", "r", "_", "p", "r", "o", "f", "i", "l", "e" >>
HTTPRequest == << "H", "T", "T", "P", "R", "e", "q" >>

\* index_name literals: any characters at all
NameChars == { "a", "Z", "9", "-", "_", " ", "!" }
Names == SeqsUpTo(NameChars, MaxNameLen)
MyIndex == << "M", "y", "-", "I", "n", "d", "e", "x" >>
BadName == << "b", "a", "d", " ", "n", "a", "m", "e", "!" >>

\* #[index_config(index_name = .., max_total_hits = ..)] on the type
Configured(name, hits) == Block("index_config", TRUE, StructAttrs(name, hits))

StructBlocks ==
    { Configured(n, h) : n \in { None, Some(<< "a" >>), Some(<< "b", "!" >>) },
                         h \in { None, Some(<< "0" >>), Some(<< "5", "0", "0" >>) } }
    \cup { Block("index_config", FALSE, StructAttrs(Some(<< "x" >>), Some(<< "9" >>))),
           Block("serde", TRUE, StructAttrs(Some(<< "y" >>), Some(<< "7" >>))) }

FlagSets ==
    { {}, { "primary_key" }, { "distinct" },
      { "primary_key", "distinct", "displayed" },
      { "displayed", "searchable" },
      { "filterable", "sortable" },
      { "displayed", "searchable", "filterable", "sortable" } }

FieldBlocks ==
    { Flagged(S) : S \in { {}, { "primary_key" }, { "distinct", "displayed" } } }
    \cup { Block("index_config", FALSE, FieldAttrs({ "primary_key", "distinct", "sortable" })),
           Block("serde", TRUE, FieldAttrs({ "primary_key", "distinct", "searchable" })) }

Plain == << "P" >>
Ghost == << "_", "_" >>
OneField == NamedFields(<< { "primary_key", "displayed" } >>)

\* names: derived from every identifier, or given by every literal
NameItems ==
    { Item("named", id, << >>, OneField) : id \in Idents \cup { UserProfile, HTTPRequest } }
    \cup { Item("named", id, << Configured(Some(n), None) >>, OneField) :
             id \in { Plain, Ghost }, n \in Names \cup { MyIndex, BadName } }

\* every sequence of blocks on the type
StructAttrItems ==
    { Item("named", Plain, as, OneField) : as \in SeqsUpTo(StructBlocks, MaxStructAttrs) }

\* every sequence of flagged fields, under good and bad names, with and
\* without a pagination limit
FieldItems ==
    { Item("named", h[1], h[2], NamedFields(fs)) :
        h \in { << Plain, << >> >>,
                << Ghost, << >> >>,
                << Plain, << Configured(None, Some(<< "-", "1" >>)) >> >>,
                << Plain, << Configured(Some(<< "b", "!" >>), Some(<< "0" >>)) >> >> },
        fs \in SeqsUpTo(FlagSets, MaxFields) }

\* all six flags, in every combination, on one field
OneFieldItems ==
    { Item("named", Plain, << >>, NamedFields(<< S >>)) : S \in SUBSET Roles }

\* every sequence of blocks on a field, before or after a flagged field
FieldAttrItems ==
    { Item("named", Plain, << >>,
           << Field(Some(FieldName(1)), bs),
              Field(Some(FieldName(2)), << Flagged({ "primary_key", "distinct" }) >>) >>) :
        bs \in SeqsUpTo(FieldBlocks, MaxFieldAttrs) }
    \cup
    { Item("named", Plain, << >>,
           << Field(Some(FieldName(1)), << Flagged({ "primary_key", "distinct" }) >>),
              Field(Some(FieldName(2)), bs) >>) :
        bs \in SeqsUpTo(FieldBlocks, MaxFieldAttrs) }

\* the items that are not structs with named fields
OtherKindItems ==
    { Item("tuple", h[1], h[2], PositionalFields(fs)) :
        h \in { << Plain, << >> >>,
                << Ghost, << >> >>,
                << Plain, << Configured(Some(<< "b", "!" >>), Some(<< "0" >>)) >> >> },
        fs \in SeqsUpTo(FlagSets, MaxFields) \ { << >> } }
    \cup
    { Item(k, id, as, << >>) :
        k \in { "unit", "enum", "union" },
        id \in { Plain, Ghost },
        as \in SeqsUpTo(StructBlocks, 1) }

Items ==
    NameItems \cup StructAttrItems \cup FieldItems \cup OneFieldItems
    \cup FieldAttrItems \cup OtherKindItems

Init ==
    /\ item \in Items
    /\ pc = "start"
    /\ ai = 1
    /\ index_name_override = None
    /\ max_total_hits = None
    /\ index_name = EmptyString
    /\ span = NoSpan
    /\ fi = 1
    /\ primary_key_found = FALSE
    /\ distinct_found = FALSE
    /\ primary_key_attribute = EmptyString
    /\ distinct_key_attribute = EmptyString
    /\ displayed_attributes = << >>
    /\ searchable_attributes = << >>
    /\ filterable_attributes = << >>
    /\ sortable_attributes = << >>
    /\ output = NoOutput
    /\ rpc = "idle"
    /\ calls = << >>
    /\ pending = NoResult
    /\ result = NoResult

Next ==
    \/ generate_index_settings
    \/ StructAttrLoop
    \/ ResolveIndexName
    \/ FieldLoop
    \/ EmitImplementation
    \/ CallCreateIndex
    \/ CreateIndexReturns
    \/ UnwrapAndWaitForCompletion
    \/ WaitForCompletionReturns
    \/ UnwrapAndTryMakeIndex

Spec == Init /\ [][Next]_vars

(***************************************************************************)
(* What the claims speak of, read off the input.                           *)
(***************************************************************************)
Min(S) == CHOOSE x \in S : \A y \in S : x <= y
Max(S) == CHOOSE x \in S : \A y \in S : x >= y

\* the blocks of a list that carry the recognized tag and parse
Parsing(attrs) == { i \in DOMAIN attrs : attrs[i].tag = "index_config" /\ attrs[i].ok }

\* the flags of the first recognized block of the field that parses
RoleFlags(field) ==
    IF Parsing(field.attrs) = {}
    THEN [ r \in Roles |-> FALSE ]
    ELSE [ r \in Roles |-> field.attrs[Min(Parsing(field.attrs))].body[r] ]

Carriers(role) == { i \in DOMAIN item.fields : RoleFlags(item.fields[i])[role] }

SecondCarrier(role) == Min(Carriers(role) \ { Min(Carriers(role)) })

UniqueRoles == { "primary_key", "distinct" }

DuplicatedRoles == { r \in UniqueRoles : Cardinality(Carriers(r)) >= 2 }

\* the field at which the loop first meets a second carrier of a unique role
FirstDuplicateField == Min({ SecondCarrier(r) : r \in DuplicatedRoles })

IsDuplicateRoleError(o) ==
    /\ o.kind = "error"
    /\ o.message \in { DuplicatePrimaryKeyMessage, DuplicateDistinctMessage }

IsInvalidNameError(o) == o.kind = "error" /\ o.message = InvalidNameMessage

IsStructuralError(o) == o.kind = "error" /\ o.message = StructuralMessage

Generated == pc = "done" /\ output.kind = "impl"

\* the descriptor's primaryKeyField / distinctField, as the emitted code shows it
EmittedDistinct ==
    LET ds == SelectSeq(output.generate_settings,
                        LAMBDA c : c.method = "with_distinct_attribute")
    IN  IF ds = << >> THEN None ELSE Some(ds[1].items[1])

DescriptorField(role) ==
    IF role = "primary_key" THEN output.create_index_args.primary_key ELSE EmittedDistinct

NamedWithValidName ==
    /\ pc = "done"
    /\ item.kind = "named"
    /\ ~IsInvalidNameError(output)

RoleLawOnSuccess(role) ==
    /\ (Generated /\ Cardinality(Carriers(role)) = 1)
           => DescriptorField(role) = item.fields[Min(Carriers(role))].ident
    /\ (Generated /\ Carriers(role) = {}) => DescriptorField(role) = None

(***************************************************************************)
(* C1, as stated: for primaryKey and for distinct, over a struct with     *)
(* named fields and a valid index name, one carrier of the flag makes the  *)
(* descriptor's field that field's name, no carrier leaves it absent, and  *)
(* two or more carriers fail generation with a DuplicateRoleError attached *)
(* to the second field carrying that flag, with no implementation.         *)
(***************************************************************************)
C1_AsStated ==
    NamedWithValidName =>
        \A role \in UniqueRoles :
            /\ RoleLawOnSuccess(role)
            /\ Cardinality(Carriers(role)) >= 2 =>
                  /\ IsDuplicateRoleError(output)
                  /\ output.span = FieldSpan(SecondCarrier(role))

(***************************************************************************)
(* C1, amended: as above for one and for no carrier (when generation       *)
(* succeeds); with two or more carriers of a role generation fails with a  *)
(* DuplicateRoleError and emits no implementation, and the diagnostic is   *)
(* attached to the earliest field that is the second carrier of either     *)
(* role: the second carrier of this role unless the other role's second    *)
(* carrier is declared before it.  On one field the primary-key duplicate  *)
(* is the one reported.                                                    *)
(***************************************************************************)
C1_RoleLaw ==
    NamedWithValidName =>
        /\ \A role \in UniqueRoles :
              /\ RoleLawOnSuccess(role)
              /\ Cardinality(Carriers(role)) >= 2 =>
                    /\ IsDuplicateRoleError(output)
                    /\ output.span = FieldSpan(FirstDuplicateField)
                    /\ FirstDuplicateField <= SecondCarrier(role)
        /\ (DuplicatedRoles = { "primary_key" }) =>
              output = CompileError(FieldSpan(SecondCarrier("primary_key")),
                                    DuplicatePrimaryKeyMessage)
        /\ (DuplicatedRoles = { "distinct" }) =>
              output = CompileError(FieldSpan(SecondCarrier("distinct")),
                                    DuplicateDistinctMessage)
        /\ (DuplicatedRoles = UniqueRoles) =>
              output.message =
                  IF SecondCarrier("primary_key") <= SecondCarrier("distinct")
                  THEN DuplicatePrimaryKeyMessage
                  ELSE DuplicateDistinctMessage

\* both roles duplicated, the distinct duplicate met first
C1_Witness ==
    /\ NamedWithValidName
    /\ DuplicatedRoles = UniqueRoles
    /\ SecondCarrier("distinct") < SecondCarrier("primary_key")
    /\ IsDuplicateRoleError(output)

(***************************************************************************)
(* C2: after the field loop of a successful generation each of             *)
(* displayed/searchable/filterable/sortable holds exactly the names of the *)
(* fields whose flag for that role is set, each once, in declaration       *)
(* order; a field with several flags is in each list, one with none in no  *)
(* list.                                                                   *)
(***************************************************************************)
ListOf(role) ==
    CASE role = "displayed" -> displayed_attributes
      [] role = "searchable" -> searchable_attributes
      [] role = "filterable" -> filterable_attributes
      [] role = "sortable" -> sortable_attributes

ListRoles == { "displayed", "searchable", "filterable", "sortable" }

\* the position of the field a list entry names
FieldNamed(name) == CHOOSE i \in DOMAIN item.fields : item.fields[i].ident = Some(name)

AfterFieldLoop == Generated \/ (pc = "fields" /\ fi > Len(item.fields))

C2_FieldGroups ==
    AfterFieldLoop =>
        \A role \in ListRoles :
            LET list == ListOf(role) IN
            /\ \A k \in DOMAIN list :
                  \E i \in Carriers(role) : item.fields[i].ident = Some(list[k])
            /\ \A i \in Carriers(role) :
                  \E k \in DOMAIN list : item.fields[i].ident = Some(list[k])
            /\ \A k, m \in DOMAIN list :
                  k < m => FieldNamed(list[k]) < FieldNamed(list[m])

C2_Witness ==
    /\ Generated
    /\ Len(displayed_attributes) >= 2
    /\ Len(sortable_attributes) >= 1
    /\ displayed_attributes # sortable_attributes
    /\ \E i \in DOMAIN item.fields :
          \A role \in ListRoles : i \in Carriers(role)
    /\ \E i \in DOMAIN item.fields :
          \A role \in ListRoles : i \notin Carriers(role)

(***************************************************************************)
(* C3: an item that is not a struct with named fields (a tuple struct, a   *)
(* unit struct, an enum, a union) is rejected with a StructuralError and   *)
(* no implementation is emitted, whatever its annotations and flags: the   *)
(* macro ends on such an item with the structural diagnostic.              *)
(***************************************************************************)
C3_StructuralRejection ==
    (item.kind # "named" /\ pc = "done") =>
        output = CompileError(IdentSpan, StructuralMessage)

(***************************************************************************)
(* C4: the candidate index name is the literal of the index_name override  *)
(* when there is one and the snake-cased type identifier otherwise         *)
(* (UserProfile gives user_profile); generation goes past naming exactly   *)
(* when the candidate is non-empty and made of ASCII letters, digits, '-'  *)
(* and '_', and fails otherwise with an InvalidNameError at the override   *)
(* or at the identifier; so an emitted index name is always well formed.   *)
(***************************************************************************)
LastSpecifying(key, k) ==
    LET S == { i \in Parsing(item.attrs) : i <= k /\ item.attrs[i].body[key].some }
    IN  IF S = {} THEN 0 ELSE Max(S)

OverrideBlock == LastSpecifying("index_name", Len(item.attrs))

Candidate ==
    IF OverrideBlock # 0
    THEN item.attrs[OverrideBlock].body.index_name.v
    ELSE ToSnakeCase(item.ident)

CandidateSpan == IF OverrideBlock # 0 THEN NameSpan(OverrideBlock) ELSE IdentSpan

AllowedChars == Range(LowerLetters) \cup Range(UpperLetters) \cup Digits \cup { "-", "_" }

WellFormed(name) == Len(name) > 0 /\ Range(name) \subseteq AllowedChars

NamingDone == pc = "fields" \/ (pc = "done" /\ ~IsStructuralError(output))

C4_Naming ==
    /\ NamingDone =>
          /\ index_name = Candidate
          /\ WellFormed(Candidate) <=> ~IsInvalidNameError(output)
          /\ ~WellFormed(Candidate) =>
                /\ pc = "done"
                /\ output = CompileError(CandidateSpan, InvalidNameMessage)
          /\ (item.ident = UserProfile /\ OverrideBlock = 0) => index_name = user_profile
    /\ output.kind = "impl" =>
          /\ WellFormed(output.INDEX_STR)
          /\ output.INDEX_STR = Candidate

\* an override that is not well formed, reported at the override
C4_Witness ==
    /\ pc = "done"
    /\ OverrideBlock # 0
    /\ Candidate = BadName
    /\ output = CompileError(NameSpan(OverrideBlock), InvalidNameMessage)

(***************************************************************************)
(* C5: the emitted generate_settings chain has exactly one call for each   *)
(* of displayed, searchable, filterable and sortable, with an explicit     *)
(* empty iterator for an empty list and the names in order otherwise; the  *)
(* distinct call exactly when a distinct field was found; the pagination   *)
(* call exactly when max_total_hits is present, with that value verbatim.  *)
(***************************************************************************)
CallsTo(method) == SelectSeq(output.generate_settings, LAMBDA c : c.method = method)

ListMethod(role) ==
    CASE role = "displayed" -> "with_displayed_attributes"
      [] role = "searchable" -> "with_searchable_attributes"
      [] role = "filterable" -> "with_filterable_attributes"
      [] role = "sortable" -> "with_sortable_attributes"

SettingsMethods ==
    { ListMethod(r) : r \in ListRoles } \cup { "with_distinct_attribute", "with_pagination" }

C5_SettingsChain ==
    Generated =>
        /\ \A role \in ListRoles :
              /\ Len(CallsTo(ListMethod(role))) = 1
              /\ CallsTo(ListMethod(role))[1].kind =
                    IF ListOf(role) = << >> THEN "iter_empty" ELSE "array"
              /\ CallsTo(ListMethod(role))[1].items = ListOf(role)
        /\ CallsTo("with_distinct_attribute") =
              IF distinct_found
              THEN << Call("with_distinct_attribute", "Some", << distinct_key_attribute >>) >>
              ELSE << >>
        /\ CallsTo("with_pagination") =
              IF max_total_hits.some
              THEN << Call("with_pagination", "PaginationSetting", << max_total_hits.v >>) >>
              ELSE << >>
        /\ \A k \in DOMAIN output.generate_settings :
              output.generate_settings[k].method \in SettingsMethods

\* an empty list beside a filled one, a distinct field, a negative limit
C5_Witness ==
    /\ Generated
    /\ displayed_attributes = << >>
    /\ Len(sortable_attributes) >= 2
    /\ distinct_found
    /\ max_total_hits = Some(<< "-", "1" >>)

(***************************************************************************)
(* C8: when a type has several violations the one diagnostic is the first  *)
(* in pipeline order: the structural check (the item is not a struct with  *)
(* named fields), then the index name, then the fields in declaration      *)
(* order, the primaryKey duplicate before the distinct duplicate on one    *)
(* field; no implementation is emitted.                                    *)
(***************************************************************************)
Violations ==
    { v \in { "structural", "name", "duplicate" } :
        \/ v = "structural" /\ item.kind # "named"
        \/ v = "name" /\ ~WellFormed(Candidate)
        \/ v = "duplicate" /\ DuplicatedRoles # {} }

FirstDiagnostic ==
    IF "structural" \in Violations THEN CompileError(IdentSpan, StructuralMessage)
    ELSE IF "name" \in Violations THEN CompileError(CandidateSpan, InvalidNameMessage)
    ELSE CompileError(FieldSpan(FirstDuplicateField),
                      IF /\ "primary_key" \in DuplicatedRoles
                         /\ SecondCarrier("primary_key") = FirstDuplicateField
                      THEN DuplicatePrimaryKeyMessage
                      ELSE DuplicateDistinctMessage)

C8_FirstViolationOnly ==
    (pc = "done" /\ Cardinality(Violations) >= 2) => output = FirstDiagnostic

(***************************************************************************)
(* C9: after the loop over the type's blocks the index_name override is    *)
(* the value of the last parsed block that specifies index_name and        *)
(* max_total_hits the value of the last parsed block that specifies        *)
(* max_total_hits, each key on its own; a block that does not parse        *)
(* changes neither and reports nothing; repeating a key is no error.       *)
(***************************************************************************)
LastValue(key, k) ==
    IF LastSpecifying(key, k) = 0
    THEN None
    ELSE Some(item.attrs[LastSpecifying(key, k)].body[key].v)

C9_LastBlockWins ==
    pc # "start" =>
        /\ max_total_hits = LastValue("max_total_hits", ai - 1)
        /\ index_name_override.some = LastValue("index_name", ai - 1).some
        /\ index_name_override.some =>
              /\ index_name_override.v.value = LastValue("index_name", ai - 1).v
              /\ index_name_override.v.name_span =
                    NameSpan(LastSpecifying("index_name", ai - 1))
        /\ pc = "struct_attrs" => output = NoOutput

\* two blocks give index_name, only the first max_total_hits, the third
\* does not parse
C9_Witness ==
    /\ pc = "fields"
    /\ Len(item.attrs) = 3
    /\ Parsing(item.attrs) = { 1, 2 }
    /\ item.attrs[1].body.index_name.some
    /\ item.attrs[2].body.index_name.some
    /\ item.attrs[1].body.index_name # item.attrs[2].body.index_name
    /\ item.attrs[1].body.max_total_hits.some
    /\ ~item.attrs[2].body.max_total_hits.some
    /\ index_name_override.v.value = item.attrs[2].body.index_name.v
    /\ max_total_hits = item.attrs[1].body.max_total_hits

(***************************************************************************)
(* C10: a field's role flags are those of its first recognized block that  *)
(* parses: blocks before it that do not parse are skipped silently, blocks *)
(* after it are not consulted (their primaryKey or distinct flag neither   *)
(* sets the role nor raises a DuplicateRoleError), and a field with no     *)
(* parsing block has no flag.  So the fields handled so far have left      *)
(* exactly the marks those flags call for.                                 *)
(***************************************************************************)
NamesOf(role, k) ==
    LET sel == SelectSeq(SubSeq(item.fields, 1, k), LAMBDA f : RoleFlags(f)[role])
    IN  [ i \in DOMAIN sel |-> sel[i].ident.v ]

FoundName(role, k) ==
    IF NamesOf(role, k) = << >> THEN EmptyString ELSE NamesOf(role, k)[1]

C10_FirstParsedBlock ==
    /\ (item.kind = "named" /\ (pc = "fields" \/ Generated)) =>
          /\ \A role \in ListRoles : ListOf(role) = NamesOf(role, fi - 1)
          /\ primary_key_found = (NamesOf("primary_key", fi - 1) # << >>)
          /\ distinct_found = (NamesOf("distinct", fi - 1) # << >>)
          /\ primary_key_attribute = FoundName("primary_key", fi - 1)
          /\ distinct_key_attribute = FoundName("distinct", fi - 1)
          /\ Len(NamesOf("primary_key", fi - 1)) <= 1
          /\ Len(NamesOf("distinct", fi - 1)) <= 1
    /\ (item.kind = "named" /\ pc = "done" /\ IsDuplicateRoleError(output)) =>
          LET role == IF output.message = DuplicatePrimaryKeyMessage
                      THEN "primary_key" ELSE "distinct"
          IN  /\ output.span = FieldSpan(fi)
              /\ RoleFlags(item.fields[fi])[role]
              /\ NamesOf(role, fi - 1) # << >>

\* a field whose first block does not parse, whose second gives its flags,
\* and whose third, never read, claims the primary key another field holds
C10_Witness ==
    /\ Generated
    /\ primary_key_attribute = FieldName(1)
    /\ Len(item.fields) = 2
    /\ Len(item.fields[2].attrs) = 3
    /\ Parsing(item.fields[2].attrs) = { 2, 3 }
    /\ item.fields[2].attrs[1].tag = "index_config"
    /\ item.fields[2].attrs[1].body.primary_key
    /\ item.fields[2].attrs[3] = Flagged({ "primary_key" })
    /\ ~RoleFlags(item.fields[2])["primary_key"]

(***************************************************************************)
(* C6: a run of the generated generate_index issues exactly one            *)
(* create_index request, with the index name the constant INDEX_STR        *)
(* exposes and the primary key field if one was found; it waits only on a  *)
(* task that request returned, and converts only the task the wait         *)
(* reported as terminal: never a task that has not reached a terminal      *)
(* state.                                                                  *)
(***************************************************************************)
OpsOf(cs) == [ k \in DOMAIN cs |-> cs[k].op ]

CallOrder == << "create_index", "wait_for_completion", "try_make_index" >>

RunEnded == rpc \in { "returned", "panicked" }

CreateRequests == SelectSeq(calls, LAMBDA c : c.op = "create_index")

C6_CallSequence ==
    /\ OpsOf(calls) = SubSeq(CallOrder, 1, Len(calls))
    /\ Len(CreateRequests) <= 1
    /\ RunEnded => Len(CreateRequests) = 1
    /\ rpc # "idle" =>
          /\ Len(calls) >= 1
          /\ calls[1].args.uid = output.INDEX_STR
          /\ calls[1].args.primary_key =
                IF primary_key_found THEN Some(primary_key_attribute) ELSE None
    /\ Len(calls) >= 2 => calls[2].args = "enqueued"
    /\ Len(calls) >= 3 => calls[3].args \in TerminalStatuses
    /\ rpc = "wait_for_completion" => Len(calls) = 2
    /\ rpc = "returned" => Len(calls) = 3

\* the run converted a task the wait reported as failed
C6_Witness ==
    /\ rpc = "returned"
    /\ primary_key_found
    /\ calls[3] = ClientCall("try_make_index", "failed")

(***************************************************************************)
(* C7: a failure of create_index or of wait_for_completion is never        *)
(* returned to the caller: the run panics there and makes no later call;   *)
(* only the conversion's failure is returned, as the task the client gave. *)
(***************************************************************************)
ClientFailed == ~pending.ok /\ pending # NoResult

C7_FatalFailures ==
    /\ ClientFailed =>
          /\ rpc \in { "create_index_returned", "wait_for_completion_returned", "panicked" }
          /\ result = NoResult
          /\ Len(calls) <= 2
          /\ \A k \in DOMAIN calls : calls[k].op # "try_make_index"
    /\ rpc = "panicked" => ClientFailed
    /\ rpc = "returned" =>
          /\ pending.ok
          /\ result = IF pending.v = "succeeded" THEN Ok("Index") ELSE Err(pending.v)
          /\ ~result.ok => result.v = calls[3].args

\* the wait failed after the request succeeded: a panic, nothing returned
C7_Witness ==
    /\ rpc = "panicked"
    /\ pending = Err("Timeout")
    /\ Len(calls) = 2
    /\ result = NoResult

====
